---- MODULE Spec2Model ----
(***************************************************************************)
(* The RSS worker of Winds (api/src/workers/rss.js): rssProcessor,         *)
(* handleRSS, upsertManyArticles, upsertArticle and markDone, run by       *)
(* several concurrent jobs against one document store.  Every `await` of   *)
(* the source is a point where the jobs interleave, so every awaited call  *)
(* is one action.                                                          *)
(***************************************************************************)
EXTENDS Integers, Sequences, FiniteSets, TLC

\* ------------------------------------------------------------------ bounds
MaxBatch == 2                   \* articles in one parsed feed
MaxArticles == 201              \* articles of one large feed: three chunks

Jobs == {"j1", "j2"}            \* jobs the queue runs concurrently
ExistingFeeds == {"f1", "f2"}   \* RSS documents present in the store
FeedIDs == ExistingFeeds \cup {"gone"}
\* The feeds of the queued jobs: two jobs on one feed, or one of them on a
\* feed that was deleted after the job was queued.  No job runs on f2.
JobFeeds == { d \in [Jobs -> FeedIDs] : d["j1"] = "f1" /\ d["j2"] \in {"f1", "gone"} }
RawURLs == {"A/", "b"}          \* article URLs as the parser delivers them
Contents ==
    { [title |-> "T",  description |-> "D",  content |-> "B", commentUrl |-> "c"],
      [title |-> "T2", description |-> "D",  content |-> "B", commentUrl |-> "c2"] }

\* ------------------------------------------------------- program constants
duplicateKeyError == 11000
chunkSize == 100

\* --------------------------------------------------------------- variables
VARIABLES
    rssDocs,        \* RSS collection: feed id -> document
    articles,       \* Article collection on the primary: set of documents
    secondary,      \* the Article collection as a lagging secondary holds it
    clock,          \* the wall clock moment() reads
    ignored,        \* statsd counter winds.handle_rss.articles.ignored
    pc,             \* per job: the await handleRSS is suspended at
    jobData,        \* per job: job.data.rss
    thrown,         \* per job: the error handleRSS rejected with
    logged,         \* per job: logger.error was called by rssProcessor
    escaped,        \* per job: rssProcessor itself rejected
    caught,         \* per job: the error bound by the catch around ParseFeed
    rssContent,     \* per job: what ParseFeed resolved with
    candidates,     \* per job: the articles handed to upsertManyArticles
    tasks,          \* per job: the upsertArticle calls of Promise.all
    counted,        \* per job: result of Article.count
    updatedArticles,\* per job: the non-null results of the upserts
    i,              \* per job: loop index of the chunk loop
    ogQueue,        \* per job: urls handed to OgQueueAdd
    published,      \* per job: chunks accepted by rssFeed.addActivities
    notified,       \* per job: sendRssFeedToCollections succeeded
    before          \* history, per job: the articles when the job was acknowledged

vars == << rssDocs, articles, secondary, clock, ignored, pc, jobData, thrown,
           logged, escaped, caught, rssContent, candidates, tasks, counted, updatedArticles, i,
           ogQueue, published, notified, before >>

\* ----------------------------------------------------------------- values
Null == [null |-> TRUE]
NoError == [name |-> "none", code |-> 0]
DuplicateKey == [name |-> "MongoError", code |-> duplicateKeyError]
StoreError == [name |-> "MongoNetworkError", code |-> 0]
FetchError == [name |-> "FetchError", code |-> 0]
StreamError == [name |-> "StreamApiError", code |-> 0]

SeqsUpTo(S, n) == UNION { [1..m -> S] : m \in 0..n }

RawArticles ==
    { [url |-> u, title |-> c.title, description |-> c.description,
       content |-> c.content, commentUrl |-> c.commentUrl] :
         u \in RawURLs, c \in Contents }

\* What ParseFeed(job.data.url) can settle with.
ParseOutcomes ==
    { [kind |-> "undefined", articles |-> << >>] }
    \cup { [kind |-> "content", articles |-> s] : s \in SeqsUpTo(RawArticles, MaxBatch) }

\* ------------------------------------------------------------- normalizer
normalize(u) ==
    CASE u = "A/" -> "a"
      [] u = "b"  -> "b"
      [] OTHER    -> "throw"

computeContentHash(a) == << a.commentUrl, a.content, a.description, a.title >>

NormalizeOne(a) ==
    IF normalize(a.url) = "throw"
    THEN Null
    ELSE [url |-> normalize(a.url), title |-> a.title, description |-> a.description,
          content |-> a.content, commentUrl |-> a.commentUrl,
          contentHash |-> computeContentHash(a)]

RECURSIVE MapNormalize(_)
MapNormalize(s) ==
    IF s = << >> THEN << >>
    ELSE LET a == NormalizeOne(Head(s))
         IN  (IF a = Null THEN << >> ELSE << a >>) \o MapNormalize(Tail(s))

Range(s) == { s[k] : k \in DOMAIN s }

\* ----------------------------------------------------------------- store
\* Lines 184-197: the fields upsertArticle writes.
update(rssID, post) ==
    [commentUrl |-> post.commentUrl, content |-> post.content,
     description |-> post.description, title |-> post.title,
     url |-> post.url, rss |-> rssID, contentHash |-> post.contentHash]

WithId(id, fields) ==
    [_id |-> id, commentUrl |-> fields.commentUrl, content |-> fields.content,
     description |-> fields.description, title |-> fields.title,
     url |-> fields.url, rss |-> fields.rss, contentHash |-> fields.contentHash]

\* The article feed f2 holds from the start.
OtherFeedArticle ==
    WithId(<< "j0", 1 >>,
           update("f2", NormalizeOne([url |-> "A/", title |-> "T", description |-> "D",
                                      content |-> "B", commentUrl |-> "c"])))

\* Mutant: the collection has no unique index.
NoUniqueIndex(coll, doc) == FALSE

\* The unique index of the Article collection on (rss, url).
UniqueIndexViolated(coll, doc) ==
    \E d \in coll : d.rss = doc.rss /\ d.url = doc.url

resetScrapeFailures(docs, rssID) ==
    [docs EXCEPT ![rssID].consecutiveScrapeFailures = 0]

incrScrapeFailures(docs, rssID) ==
    [docs EXCEPT ![rssID].consecutiveScrapeFailures = @ + 1]

\* ------------------------------------------------------------ rssProcessor
\* Mutant: handleRSS is awaited without the try/catch.
rssProcessorNoCatch(err) ==
    [pc |-> "done", thrown |-> err, logged |-> FALSE, escaped |-> (err # NoError)]

\* Lines 31-45, the try/catch around handleRSS: what an outcome of handleRSS
\* leaves of the job.
rssProcessor(err) ==
    [pc |-> "done", thrown |-> err, logged |-> (err # NoError), escaped |-> FALSE]

Finish(j, err) ==
    LET r == rssProcessor(err)
    IN  /\ pc' = [pc EXCEPT ![j] = r.pc]
        /\ thrown' = [thrown EXCEPT ![j] = r.thrown]
        /\ logged' = [logged EXCEPT ![j] = r.logged]
        /\ escaped' = [escaped EXCEPT ![j] = r.escaped]

Goto(j, label) ==
    /\ pc' = [pc EXCEPT ![j] = label]
    /\ UNCHANGED << thrown, logged, escaped >>

Control == << pc, thrown, logged, escaped >>
Parsed == << caught, rssContent, candidates >>
FanOut == << counted, updatedArticles, i, ogQueue, published, notified >>
History == << before >>

\* ------------------------------------------------------------------- Init
Init ==
    /\ rssDocs = [f \in ExistingFeeds |->
                    [lastScraped |-> 0, isParsing |-> TRUE,
                     consecutiveScrapeFailures |-> 0,
                     postCount |-> IF f = "f2" THEN 1 ELSE 0]]
    /\ articles = {OtherFeedArticle}
    /\ secondary = {OtherFeedArticle}
    /\ clock = 0
    /\ ignored = 0
    /\ pc = [j \in Jobs |-> "ack"]
    /\ jobData \in JobFeeds
    /\ thrown = [j \in Jobs |-> NoError]
    /\ logged = [j \in Jobs |-> FALSE]
    /\ escaped = [j \in Jobs |-> FALSE]
    /\ caught = [j \in Jobs |-> NoError]
    /\ rssContent = [j \in Jobs |-> [kind |-> "pending", articles |-> << >>]]
    /\ candidates = [j \in Jobs |-> << >>]
    /\ tasks = [j \in Jobs |-> << >>]
    /\ counted = [j \in Jobs |-> 0]
    /\ updatedArticles = [j \in Jobs |-> << >>]
    /\ i = [j \in Jobs |-> 0]
    /\ ogQueue = [j \in Jobs |-> << >>]
    /\ published = [j \in Jobs |-> << >>]
    /\ notified = [j \in Jobs |-> FALSE]
    /\ before = [j \in Jobs |-> [quiet |-> FALSE, articles |-> {}]]

\* ----------------------------------------------------------------- markDone
\* Mutant: markDone writes lastScraped and leaves isParsing as it is.
markDoneKeepsParsing(docs, rssID, now) ==
    [f \in DOMAIN docs |->
        IF f = rssID THEN [docs[f] EXCEPT !.lastScraped = now] ELSE docs[f]]

\* Lines 232-238: RSS.update of the feed's document, if there is one.
markDone(docs, rssID, now) ==
    [f \in DOMAIN docs |->
        IF f = rssID
        THEN [docs[f] EXCEPT !.lastScraped = now, !.isParsing = FALSE]
        ELSE docs[f]]

AllSettled(ts) == \A k \in DOMAIN ts : ts[k].st = "done"

\* No other job is running or has an upsert in flight.
Quiet(j) ==
    \A k \in Jobs \ {j} : pc[k] = "done" /\ AllSettled(tasks[k])

\* handleRSS, lines 51-53: the acknowledgement is applied.
Ack(j) ==
    /\ pc[j] = "ack"
    /\ clock' = clock + 1
    /\ rssDocs' = markDone(rssDocs, jobData[j], clock')
    /\ Goto(j, "get_rss")
    /\ before' = [before EXCEPT ![j] = [quiet |-> Quiet(j),
                                          articles |-> IF Quiet(j) THEN articles ELSE {}]]
    /\ UNCHANGED << articles, ignored, jobData, Parsed, tasks, FanOut >>

AckFails(j) ==
    /\ pc[j] = "ack"
    /\ clock' = clock + 1
    /\ Finish(j, StoreError)
    /\ UNCHANGED << rssDocs, articles, ignored, jobData, Parsed, tasks, FanOut, History >>

\* Mutant: the result of RSS.findOne is not tested.
GetRssIgnoresMissing(j) ==
    /\ pc[j] = "get_rss"
    /\ Goto(j, "parsing")
    /\ UNCHANGED << rssDocs, articles, clock, ignored, jobData, Parsed, tasks, FanOut,
                    History >>

\* handleRSS, lines 55-62: RSS.findOne and the return when the feed is gone.
GetRss(j) ==
    /\ pc[j] = "get_rss"
    /\ IF jobData[j] \in DOMAIN rssDocs
       THEN Goto(j, "parsing")
       ELSE Finish(j, NoError)
    /\ UNCHANGED << rssDocs, articles, clock, ignored, jobData, Parsed, tasks, FanOut,
                    History >>

GetRssFails(j) ==
    /\ pc[j] = "get_rss"
    /\ Finish(j, StoreError)
    /\ UNCHANGED << rssDocs, articles, clock, ignored, jobData, Parsed, tasks, FanOut,
                    History >>

\* handleRSS, line 69: ParseFeed resolves.
ParseFeed(j) ==
    /\ pc[j] = "parsing"
    /\ \E o \in ParseOutcomes : rssContent' = [rssContent EXCEPT ![j] = o]
    /\ Goto(j, "reset")
    /\ UNCHANGED << rssDocs, articles, clock, ignored, jobData, caught, candidates,
                    tasks, FanOut, History >>

\* handleRSS, lines 69 and 72: ParseFeed rejects and the catch block is entered.
ParseFeedFails(j) ==
    /\ pc[j] = "parsing"
    /\ caught' = [caught EXCEPT ![j] = FetchError]
    /\ Goto(j, "incr")
    /\ UNCHANGED << rssDocs, articles, clock, ignored, jobData, rssContent, candidates,
                    tasks, FanOut, History >>

\* Mutant: the counter is not reset.
onParsedKeepsCount(docs, rssID) == docs

\* Line 70: what the try block writes once ParseFeed resolved.
onParsed(docs, rssID) == resetScrapeFailures(docs, rssID)

\* Mutant: the catch block throws again without counting the failure.
onParseErrorCountsNothing(docs, rssID) == docs

\* Line 73: what the catch block writes.
onParseError(docs, rssID) == incrScrapeFailures(docs, rssID)

\* Mutant: the returns of lines 78-87 are missing.
ResetScrapeFailuresNoReturn(j) ==
    /\ pc[j] = "reset"
    /\ rssDocs' = onParsed(rssDocs, jobData[j])
    /\ candidates' = [candidates EXCEPT ![j] = MapNormalize(rssContent[j].articles)]
    /\ Goto(j, "find")
    /\ UNCHANGED << articles, clock, ignored, jobData, caught, rssContent, tasks, FanOut,
                    History >>

\* handleRSS, lines 70-104: the failure counter is reset; then the synchronous
\* code up to the first await of upsertManyArticles runs.
ResetScrapeFailures(j) ==
    /\ pc[j] = "reset"
    /\ rssDocs' = onParsed(rssDocs, jobData[j])
    /\ IF rssContent[j].kind = "undefined" \/ Len(rssContent[j].articles) = 0
       THEN /\ Finish(j, NoError)
            /\ UNCHANGED candidates
       ELSE /\ candidates' = [candidates EXCEPT ![j] = MapNormalize(rssContent[j].articles)]
            /\ Goto(j, "find")
    /\ UNCHANGED << articles, clock, ignored, jobData, caught, rssContent, tasks, FanOut,
                    History >>

\* Line 70 rejects: the catch block of line 72 is entered with the store's error.
ResetScrapeFailuresFails(j) ==
    /\ pc[j] = "reset"
    /\ caught' = [caught EXCEPT ![j] = StoreError]
    /\ Goto(j, "incr")
    /\ UNCHANGED << rssDocs, articles, clock, ignored, jobData, rssContent, candidates,
                    tasks, FanOut, History >>

\* handleRSS, lines 73-74: the failure is counted and the error thrown again.
IncrScrapeFailures(j) ==
    /\ pc[j] = "incr"
    /\ rssDocs' = onParseError(rssDocs, jobData[j])
    /\ Finish(j, caught[j])
    /\ UNCHANGED << articles, clock, ignored, jobData, Parsed, tasks, FanOut, History >>

IncrScrapeFailuresFails(j) ==
    /\ pc[j] = "incr"
    /\ Finish(j, StoreError)
    /\ UNCHANGED << rssDocs, articles, clock, ignored, jobData, Parsed, tasks, FanOut,
                    History >>

\* ------------------------------------------------------ upsertManyArticles
\* Line 166: the documents of the feed that match some article's exact
\* (url, contentHash) pair, as the member that answers the query holds them.
existingArticles(view, rssID, arts) ==
    { d \in view : /\ d.rss = rssID
                   /\ \E k \in DOMAIN arts :
                        d.url = arts[k].url /\ d.contentHash = arts[k].contentHash }

\* Mutant: an article is dropped only when its own url is among the found.
articlesToUpsertByUrl(existing, arts) ==
    LET existingArticleUrls == { d.url : d \in existing }
        Keep(a) == a.url \notin existingArticleUrls
    IN  SelectSeq(arts, Keep)

\* Lines 168-175.
articlesToUpsert(existing, arts) ==
    LET existingArticleUrls == { d.url : d \in existing }
        existingArticleHashes == { d.contentHash : d \in existing }
        Keep(a) == /\ a.url \notin existingArticleUrls
                   /\ a.contentHash \notin existingArticleHashes
    IN  SelectSeq(arts, Keep)

\* Line 179: one upsertArticle call per article to upsert, all started at once.
StartUpserts(arts) ==
    [k \in DOMAIN arts |->
        [post |-> arts[k], st |-> "call", via |-> "none", value |-> Null]]

upsertManyArticles(view, rssID, arts) ==
    StartUpserts(articlesToUpsert(existingArticles(view, rssID, arts), arts))

\* Line 166, read('sp'): the query is answered by a secondary, which may lag,
\* or by the primary when no secondary is there.
Find(j) ==
    /\ pc[j] = "find"
    /\ candidates[j] # << >>
    /\ \E view \in {articles, secondary} :
         tasks' = [tasks EXCEPT ![j] = upsertManyArticles(view, jobData[j], candidates[j])]
    /\ IF tasks'[j] = << >> THEN Goto(j, "count") ELSE Goto(j, "upserting")
    /\ UNCHANGED << rssDocs, articles, clock, ignored, jobData, Parsed, FanOut, History >>

\* The store rejects the query: a fault, or an empty $or when no article is left.
FindFails(j) ==
    /\ pc[j] = "find"
    /\ Finish(j, StoreError)
    /\ UNCHANGED << rssDocs, articles, clock, ignored, jobData, Parsed, tasks, FanOut,
                    History >>

\* ------------------------------------------------------------ upsertArticle
\* Mutant: the $or of differing fields is missing from the filter.
postContentDiffersAlways(d, post) == TRUE

\* Lines 199-201: some field that enters the content hash differs.
postContentDiffers(d, post) ==
    \/ d.commentUrl # post.commentUrl
    \/ d.content # post.content
    \/ d.description # post.description
    \/ d.title # post.title

\* Mutant: the filter does not name the url.
FilterAnyUrl(d, rssID, post) ==
    /\ d.rss = rssID
    /\ postContentDiffers(d, post)

\* Lines 206-211: the filter of findOneAndUpdate.
Filter(d, rssID, post) ==
    /\ d.rss = rssID
    /\ d.url = post.url
    /\ postContentDiffers(d, post)

\* Mutant: the stored article is returned after an update too.
upsertReturnAlways(updatedExisting, value) == value

\* Lines 219-221: what upsertArticle returns when findOneAndUpdate resolved.
upsertReturn(updatedExisting, value) ==
    IF ~ updatedExisting THEN value ELSE Null

\* Mutant: the catch block swallows every error.
upsertCatchIgnoresAll(err) == "ignored"

\* Mutant: the catch block throws every error again.
upsertCatchRethrows(err) == "rethrow"

\* Lines 222-228: the catch block of upsertArticle.
upsertCatch(err) ==
    IF err.code = duplicateKeyError THEN "ignored" ELSE "rethrow"

\* One call of upsertArticle settles; Promise.all resolves with the last one.
Settle(j, k, via, value) ==
    /\ tasks' = [tasks EXCEPT ![j][k] =
                    [@ EXCEPT !.st = "done", !.via = via, !.value = value]]
    /\ IF pc[j] = "upserting" /\ AllSettled(tasks'[j])
       THEN Goto(j, "count")
       ELSE UNCHANGED Control

\* findOneAndUpdate finds the stored article, its content differing, and
\* overwrites it: updatedExisting is true.
UpsertUpdate(j, k) ==
    /\ k \in DOMAIN tasks[j]
    /\ tasks[j][k].st = "call"
    /\ \E d \in articles :
         /\ Filter(d, jobData[j], tasks[j][k].post)
         /\ LET new == WithId(d._id, update(jobData[j], tasks[j][k].post))
            IN  /\ articles' = (articles \ {d}) \cup {new}
                /\ Settle(j, k, "update", upsertReturn(TRUE, new))
    /\ UNCHANGED << rssDocs, clock, ignored, jobData, Parsed, FanOut, History >>

\* findOneAndUpdate finds no document that passes the filter: it goes on to
\* insert one.
UpsertMiss(j, k) ==
    /\ k \in DOMAIN tasks[j]
    /\ tasks[j][k].st = "call"
    /\ ~ \E d \in articles : Filter(d, jobData[j], tasks[j][k].post)
    /\ tasks' = [tasks EXCEPT ![j][k].st = "insert"]
    /\ UNCHANGED << rssDocs, articles, clock, ignored, jobData, Control, Parsed, FanOut,
                    History >>

\* The insert of the upsert: a new document, or E11000 from the unique index,
\* which the catch block of upsertArticle receives.
UpsertInsert(j, k) ==
    /\ k \in DOMAIN tasks[j]
    /\ tasks[j][k].st = "insert"
    /\ LET doc == WithId(<< j, k >>, update(jobData[j], tasks[j][k].post))
       IN  IF UniqueIndexViolated(articles, doc)
           THEN /\ UNCHANGED articles
                /\ IF upsertCatch(DuplicateKey) = "ignored"
                   THEN /\ ignored' = ignored + 1
                        /\ Settle(j, k, "insert", Null)
                   ELSE /\ UNCHANGED ignored
                        /\ tasks' = [tasks EXCEPT ![j][k] =
                                        [@ EXCEPT !.st = "done", !.via = "duplicate"]]
                        /\ IF pc[j] = "upserting"
                           THEN Finish(j, DuplicateKey)
                           ELSE UNCHANGED Control
           ELSE /\ articles' = articles \cup {doc}
                /\ Settle(j, k, "insert", upsertReturn(FALSE, doc))
                /\ UNCHANGED ignored
    /\ UNCHANGED << rssDocs, clock, jobData, Parsed, FanOut, History >>

\* findOneAndUpdate rejects with another store error: upsertArticle throws it
\* again, Promise.all rejects at once, and the sibling calls go on.
UpsertFails(j, k) ==
    /\ k \in DOMAIN tasks[j]
    /\ tasks[j][k].st = "call"
    /\ IF upsertCatch(StoreError) = "rethrow"
       THEN /\ tasks' = [tasks EXCEPT ![j][k] = [@ EXCEPT !.st = "done", !.via = "error"]]
            /\ IF pc[j] = "upserting"
               THEN Finish(j, StoreError)
               ELSE UNCHANGED Control
       ELSE Settle(j, k, "error", Null)
    /\ UNCHANGED << rssDocs, articles, clock, ignored, jobData, Parsed, FanOut, History >>

\* ------------------------------------------------- handleRSS, lines 106-159
\* Line 110: Article.count({rss: rssID}) is answered.
Count(j) ==
    /\ pc[j] = "count"
    /\ counted' = [counted EXCEPT ![j] =
                      Cardinality({ d \in articles : d.rss = jobData[j] })]
    /\ Goto(j, "update")
    /\ UNCHANGED << rssDocs, articles, clock, ignored, jobData, Parsed, tasks,
                    updatedArticles, i, ogQueue, published, notified, History >>

CountFails(j) ==
    /\ pc[j] = "count"
    /\ Finish(j, StoreError)
    /\ UNCHANGED << rssDocs, articles, clock, ignored, jobData, Parsed, tasks, FanOut,
                    History >>

\* Lines 115-117: the results of the upserts that are articles.
Updated(ts) ==
    LET IsArticle(t) == t.value # Null
        kept == SelectSeq(ts, IsArticle)
    IN  [k \in DOMAIN kept |-> kept[k].value]

\* Mutant: no enrichment job is queued.
OgQueueAddNothing(arts) == << >>

\* Lines 121-136: one OgQueueAdd per article, not awaited.
OgQueueAdd(arts) == [k \in DOMAIN arts |-> [type |-> "article", url |-> arts[k].url]]

\* Lines 107-141: RSS.update writes the count; then the enrichment jobs are
\* queued and, if there is an article, the first chunk is sent.
UpdatePostCount(j) ==
    /\ pc[j] = "update"
    /\ rssDocs' = [rssDocs EXCEPT ![jobData[j]].postCount = counted[j]]
    /\ updatedArticles' = [updatedArticles EXCEPT ![j] = Updated(tasks[j])]
    /\ ogQueue' = [ogQueue EXCEPT ![j] = OgQueueAdd(updatedArticles'[j])]
    /\ IF Len(updatedArticles'[j]) > 0
       THEN Goto(j, "publish")
       ELSE Finish(j, NoError)
    /\ UNCHANGED << articles, clock, ignored, jobData, Parsed, tasks, counted, i,
                    published, notified, History >>

UpdatePostCountFails(j) ==
    /\ pc[j] = "update"
    /\ Finish(j, StoreError)
    /\ UNCHANGED << rssDocs, articles, clock, ignored, jobData, Parsed, tasks, FanOut,
                    History >>

Min(a, b) == IF a < b THEN a ELSE b

\* Mutant: the slice has no upper end.
streamArticlesToTheEnd(arts, from) ==
    LET chunk == SubSeq(arts, from + 1, Len(arts))
    IN  [k \in DOMAIN chunk |->
           [actor |-> chunk[k].rss, object |-> chunk[k]._id, verb |-> "rss_article"]]

\* Lines 144-153: the activities of the chunk that starts at index from.
streamArticles(arts, from) ==
    LET chunk == SubSeq(arts, from + 1, Min(from + chunkSize, Len(arts)))
    IN  [k \in DOMAIN chunk |->
           [actor |-> chunk[k].rss, object |-> chunk[k]._id, verb |-> "rss_article"]]

\* Lines 143 and 154: addActivities accepts one chunk and the loop steps.
AddActivities(j) ==
    /\ pc[j] = "publish"
    /\ published' = [published EXCEPT ![j] =
                        Append(@, streamArticles(updatedArticles[j], i[j]))]
    /\ i' = [i EXCEPT ![j] = @ + chunkSize]
    /\ IF i'[j] < Len(updatedArticles[j])
       THEN Goto(j, "publish")
       ELSE Goto(j, "notify")
    /\ UNCHANGED << rssDocs, articles, clock, ignored, jobData, Parsed, tasks, counted,
                    updatedArticles, ogQueue, notified, History >>

\* Mutant: a rejected addActivities is swallowed and the loop goes on.
AddActivitiesFailsGoesOn(j) ==
    /\ pc[j] = "publish"
    /\ i' = [i EXCEPT ![j] = @ + chunkSize]
    /\ IF i'[j] < Len(updatedArticles[j])
       THEN Goto(j, "publish")
       ELSE Goto(j, "notify")
    /\ UNCHANGED << rssDocs, articles, clock, ignored, jobData, Parsed, tasks, counted,
                    updatedArticles, ogQueue, published, notified, History >>

\* Line 154 rejects: the loop is left and handleRSS throws.
AddActivitiesFails(j) ==
    /\ pc[j] = "publish"
    /\ Finish(j, StreamError)
    /\ UNCHANGED << rssDocs, articles, clock, ignored, jobData, Parsed, tasks, FanOut,
                    History >>

\* Line 156.
SendRssFeedToCollections(j) ==
    /\ pc[j] = "notify"
    /\ notified' = [notified EXCEPT ![j] = TRUE]
    /\ Finish(j, NoError)
    /\ UNCHANGED << rssDocs, articles, clock, ignored, jobData, Parsed, tasks, counted,
                    updatedArticles, i, ogQueue, published, History >>

SendRssFeedToCollectionsFails(j) ==
    /\ pc[j] = "notify"
    /\ Finish(j, StoreError)
    /\ UNCHANGED << rssDocs, articles, clock, ignored, jobData, Parsed, tasks, FanOut,
                    History >>

\* -------------------------------------------------------------- secondary
\* Some job has its read of the secondary still ahead of it.
Reading(p) == \E j \in Jobs : p[j] \in {"ack", "get_rss", "parsing", "reset", "find"}

\* The secondary lags while a job may still read it; once none will, what
\* it holds is seen by nobody and it is taken to have caught up.
SecondaryFollows ==
    secondary' = IF Reading(pc') THEN secondary ELSE articles'

\* The secondary catches up with the primary.
Replicate ==
    /\ secondary # articles
    /\ Reading(pc)
    /\ secondary' = articles
    /\ UNCHANGED << rssDocs, articles, clock, ignored, jobData, Control, Parsed, tasks,
                    FanOut, History >>

\* ------------------------------------------------------------------- Next
TaskIds == 1..MaxBatch

Next ==
    \/ \E j \in Jobs : Ack(j) /\ SecondaryFollows
    \/ \E j \in Jobs : AckFails(j) /\ SecondaryFollows
    \/ \E j \in Jobs : GetRss(j) /\ SecondaryFollows
    \/ \E j \in Jobs : GetRssFails(j) /\ SecondaryFollows
    \/ \E j \in Jobs : ParseFeed(j) /\ SecondaryFollows
    \/ \E j \in Jobs : ParseFeedFails(j) /\ SecondaryFollows
    \/ \E j \in Jobs : ResetScrapeFailures(j) /\ SecondaryFollows
    \/ \E j \in Jobs : ResetScrapeFailuresFails(j) /\ SecondaryFollows
    \/ \E j \in Jobs : IncrScrapeFailures(j) /\ SecondaryFollows
    \/ \E j \in Jobs : IncrScrapeFailuresFails(j) /\ SecondaryFollows
    \/ \E j \in Jobs : Find(j) /\ SecondaryFollows
    \/ \E j \in Jobs : FindFails(j) /\ SecondaryFollows
    \/ \E j \in Jobs, k \in TaskIds : UpsertUpdate(j, k) /\ SecondaryFollows
    \/ \E j \in Jobs, k \in TaskIds : UpsertMiss(j, k) /\ SecondaryFollows
    \/ \E j \in Jobs, k \in TaskIds : UpsertInsert(j, k) /\ SecondaryFollows
    \/ \E j \in Jobs, k \in TaskIds : UpsertFails(j, k) /\ SecondaryFollows
    \/ \E j \in Jobs : Count(j) /\ SecondaryFollows
    \/ \E j \in Jobs : CountFails(j) /\ SecondaryFollows
    \/ \E j \in Jobs : UpdatePostCount(j) /\ SecondaryFollows
    \/ \E j \in Jobs : UpdatePostCountFails(j) /\ SecondaryFollows
    \/ \E j \in Jobs : AddActivities(j) /\ SecondaryFollows
    \/ \E j \in Jobs : AddActivitiesFails(j) /\ SecondaryFollows
    \/ \E j \in Jobs : SendRssFeedToCollections(j) /\ SecondaryFollows
    \/ \E j \in Jobs : SendRssFeedToCollectionsFails(j) /\ SecondaryFollows
    \/ Replicate

Spec == Init /\ [][Next]_vars

\* ------------------------------------------- a large feed, lines 106-159
\* The articles of a feed too large for one chunk, and the job at the point
\* where upsertManyArticles has resolved: j1 has inserted n new articles and,
\* when renewed, has overwritten one that f1 already held; j2, whose feed is
\* gone, has ended.
ManyPost(k, title) ==
    NormalizeOne([url |-> "A/", title |-> title, description |-> "D",
                  content |-> "B", commentUrl |-> "c"]) @@ [url |-> ToString(k)]

ManyTask(k, renewed) ==
    IF renewed /\ k = 1
    THEN [post |-> ManyPost(k, "T2"), st |-> "done", via |-> "update", value |-> Null]
    ELSE [post |-> ManyPost(k, "T"), st |-> "done", via |-> "insert",
          value |-> WithId(<< "j1", k >>, update("f1", ManyPost(k, "T")))]

ManyInit ==
    \E n \in 0..MaxArticles, renewed \in BOOLEAN :
        LET last == IF renewed THEN n + 1 ELSE n
            ts == [k \in 1..last |-> ManyTask(k, renewed)]
            kept == IF renewed
                    THEN {WithId(<< "j0", 2 >>, update("f1", ManyPost(1, "T2")))}
                    ELSE {}
        IN  /\ tasks = [j \in Jobs |-> IF j = "j1" THEN ts ELSE << >>]
            /\ articles = {OtherFeedArticle} \cup kept
                             \cup { ts[k].value : k \in { m \in 1..last : ts[m].value # Null } }
            /\ candidates = [j \in Jobs |->
                               IF j = "j1" THEN [k \in 1..last |-> ts[k].post] ELSE << >>]
            /\ rssContent = [j \in Jobs |->
                               IF j = "j1"
                               THEN [kind |-> "content",
                                     articles |-> [k \in 1..last |->
                                                     [url |-> ts[k].post.url,
                                                      title |-> ts[k].post.title,
                                                      description |-> ts[k].post.description,
                                                      content |-> ts[k].post.content,
                                                      commentUrl |-> ts[k].post.commentUrl]]]
                               ELSE [kind |-> "pending", articles |-> << >>]]
            /\ rssDocs = [f \in ExistingFeeds |->
                            [lastScraped |-> IF f = "f1" THEN 2 ELSE 0,
                             isParsing |-> (f # "f1"),
                             consecutiveScrapeFailures |-> 0,
                             postCount |-> IF f = "f2" \/ renewed THEN 1 ELSE 0]]
            /\ pc = [j \in Jobs |-> IF j = "j1" /\ last > 0 THEN "count" ELSE "done"]
            /\ secondary = articles
            /\ clock = 2
            /\ ignored = 0
            /\ jobData = [j \in Jobs |-> IF j = "j1" THEN "f1" ELSE "gone"]
            /\ thrown = [j \in Jobs |-> NoError]
            /\ logged = [j \in Jobs |-> FALSE]
            /\ escaped = [j \in Jobs |-> FALSE]
            /\ caught = [j \in Jobs |-> NoError]
            /\ counted = [j \in Jobs |-> 0]
            /\ updatedArticles = [j \in Jobs |-> << >>]
            /\ i = [j \in Jobs |-> 0]
            /\ ogQueue = [j \in Jobs |-> << >>]
            /\ published = [j \in Jobs |-> << >>]
            /\ notified = [j \in Jobs |-> FALSE]
            /\ before = [j \in Jobs |-> [quiet |-> (j = "j1"), articles |-> {OtherFeedArticle} \cup kept]]

ManyNext ==
    \/ \E j \in Jobs : Count(j) /\ SecondaryFollows
    \/ \E j \in Jobs : CountFails(j) /\ SecondaryFollows
    \/ \E j \in Jobs : UpdatePostCount(j) /\ SecondaryFollows
    \/ \E j \in Jobs : UpdatePostCountFails(j) /\ SecondaryFollows
    \/ \E j \in Jobs : AddActivities(j) /\ SecondaryFollows
    \/ \E j \in Jobs : AddActivitiesFails(j) /\ SecondaryFollows
    \/ \E j \in Jobs : SendRssFeedToCollections(j) /\ SecondaryFollows
    \/ \E j \in Jobs : SendRssFeedToCollectionsFails(j) /\ SecondaryFollows

SpecMany == ManyInit /\ [][ManyNext]_vars

\* ================================================================= claims
AllTasks == { << j, k >> : j \in Jobs, k \in TaskIds }
TaskOf(t) == tasks[t[1]][t[2]]
IsTask(t) == t[2] \in DOMAIN tasks[t[1]]

\* The stored articles of feed f with url u.
Stored(f, u) == { d \in articles : d.rss = f /\ d.url = u }

Urls == { normalize(u) : u \in RawURLs }

\* The settled upsertArticle calls on (f, u) that went on to insert.
Inserters(f, u) ==
    { t \in AllTasks : /\ IsTask(t)
                       /\ jobData[t[1]] = f
                       /\ TaskOf(t).post.url = u
                       /\ TaskOf(t).st = "done"
                       /\ TaskOf(t).via \in {"insert", "duplicate"} }

\* C1: in every reachable state the store holds at most one Article per
\* (rss, url), whatever the jobs and their interleaving.
C1_OneArticlePerFeedAndUrl ==
    \A d1 \in articles, d2 \in articles :
        (d1.rss = d2.rss /\ d1.url = d2.url) => d1 = d2

\* C1 witness: two jobs have each upserted the same url of f1, one call met
\* the unique index, and f1 and f2 both hold an article of url "a".
C1_Witness ==
    /\ \E k1 \in DOMAIN tasks["j1"], k2 \in DOMAIN tasks["j2"] :
          /\ tasks["j1"][k1].post.url = "a" /\ tasks["j2"][k2].post.url = "a"
          /\ tasks["j1"][k1].via = "insert" /\ tasks["j2"][k2].via = "insert"
          /\ tasks["j1"][k1].st = "done" /\ tasks["j2"][k2].st = "done"
    /\ ignored > 0
    /\ Cardinality(Stored("f1", "a")) = 1
    /\ Cardinality(Stored("f2", "a")) = 1
    /\ Cardinality(Stored("f1", "b")) = 1

\* C2: of the upsertArticle calls that went on to insert the same (rss, url),
\* once one has settled exactly one document is stored, exactly one call has
\* returned it, every other settled one has returned no article and was
\* counted as ignored, and none has thrown.
C2_RaceLeavesOneWinner ==
    /\ \A f \in ExistingFeeds, u \in Urls :
         Inserters(f, u) # {} =>
            /\ Cardinality(Stored(f, u)) = 1
            /\ Cardinality({ t \in Inserters(f, u) : TaskOf(t).value # Null }) = 1
            /\ \A t \in Inserters(f, u) :
                  /\ TaskOf(t).via = "insert"
                  /\ TaskOf(t).value # Null =>
                        \E d \in Stored(f, u) : d._id = TaskOf(t).value._id
    /\ ignored = Cardinality({ t \in AllTasks :
                     IsTask(t) /\ TaskOf(t).st = "done" /\ TaskOf(t).via = "insert"
                               /\ TaskOf(t).value = Null })
    /\ \A j \in Jobs : thrown[j] # DuplicateKey

\* C2 witness: two jobs raced with different content for the same new url;
\* both calls went on to insert, one returned the article, the other was
\* ignored, and both jobs ended without error.
C2_Witness ==
    \E k1 \in DOMAIN tasks["j1"], k2 \in DOMAIN tasks["j2"] :
        /\ tasks["j1"][k1].post.url = tasks["j2"][k2].post.url
        /\ tasks["j1"][k1].post.contentHash # tasks["j2"][k2].post.contentHash
        /\ tasks["j1"][k1].via = "insert" /\ tasks["j2"][k2].via = "insert"
        /\ tasks["j1"][k1].st = "done" /\ tasks["j2"][k2].st = "done"
        /\ tasks["j1"][k1].value = Null /\ tasks["j2"][k2].value # Null
        /\ ignored = 1
        /\ pc["j1"] = "done" /\ pc["j2"] = "done"
        /\ thrown["j1"] = NoError /\ thrown["j2"] = NoError

\* Every job has ended without error and no upsert is in flight.
AllDoneOK ==
    \A j \in Jobs : pc[j] = "done" /\ thrown[j] = NoError /\ AllSettled(tasks[j])

\* The activities the jobs have published, as (job, chunk, index) places.
Places ==
    { << j, c, n >> : j \in Jobs, c \in 1..MaxBatch, n \in 1..MaxBatch }
IsPlace(p) ==
    /\ p[2] \in DOMAIN published[p[1]]
    /\ p[3] \in DOMAIN published[p[1]][p[2]]
ActivityAt(p) == published[p[1]][p[2]][p[3]]

\* The places that announce the article with the given _id.
Announcements(id) == { p \in Places : IsPlace(p) /\ ActivityAt(p).object = id }

\* C3: once every job has ended without error, every article that was in a
\* job's batch has exactly one stored document, announced exactly once.
\* (Feed f1 starts empty, so each such url was new to the job that first met it.)
C3_EveryNewArticleStoredAndAnnounced ==
    AllDoneOK =>
        \A j \in Jobs : \A k \in DOMAIN candidates[j] :
            LET docs == Stored(jobData[j], candidates[j][k].url)
            IN  /\ Cardinality(docs) = 1
                /\ \A d \in docs : Cardinality(Announcements(d._id)) = 1

\* The job ran alone, after every other job had ended, and has ended without
\* error itself.
RanAloneOK(j) ==
    /\ before[j].quiet
    /\ pc[j] = "done"
    /\ thrown[j] = NoError

SameContent(d, a) ==
    /\ d.title = a.title
    /\ d.description = a.description
    /\ d.content = a.content
    /\ d.commentUrl = a.commentUrl

\* C4: when a job that ran alone has ended without error, every article of
\* its batch (its url once in the batch) that was stored with another
\* contentHash when the job began is stored with the batch's title,
\* description, content and commentUrl, and the job has not announced it.
C4_ChangedContentIsStoredNotAnnounced ==
    \A j \in Jobs :
        RanAloneOK(j) =>
            \A k \in DOMAIN candidates[j] :
                LET a == candidates[j][k]
                    once == \A m \in DOMAIN candidates[j] :
                                candidates[j][m].url = a.url => candidates[j][m] = a
                    was == { d \in before[j].articles :
                               d.rss = jobData[j] /\ d.url = a.url }
                IN  (once /\ \E d \in was : d.contentHash # a.contentHash) =>
                        /\ \E d \in Stored(jobData[j], a.url) : SameContent(d, a)
                        /\ \A d \in Stored(jobData[j], a.url) :
                              /\ \A c \in DOMAIN published[j] :
                                    \A n \in DOMAIN published[j][c] :
                                        published[j][c][n].object # d._id
                              /\ \A n \in DOMAIN ogQueue[j] : ogQueue[j][n].url # d.url

\* Job j is the second run of a batch: it began after job k had ended without
\* error and had settled all its upserts, for the same feed, and ParseFeed
\* gave it the articles it had given k.
SecondRun(j, k) ==
    /\ k # j
    /\ before[j].quiet
    /\ thrown[k] = NoError
    /\ jobData[k] = jobData[j]
    /\ rssContent[j].kind = "content"
    /\ rssContent[k] = rssContent[j]

\* C5: the second run of a batch stores no further document, changes no
\* stored document, queues no enrichment job and publishes no activity.
C5_SecondRunChangesNothing ==
    \A j \in Jobs, k \in Jobs :
        SecondRun(j, k) =>
            /\ articles = before[j].articles
            /\ ogQueue[j] = << >>
            /\ published[j] = << >>

\* The upsertArticle calls of job j that have inserted an article.
Inserted(j) ==
    { k \in DOMAIN tasks[j] :
        tasks[j][k].st = "done" /\ tasks[j][k].via = "insert" /\ tasks[j][k].value # Null }

\* C6: every published activity and every enrichment job is of an article that
\* an upsert of the publishing job inserted, with the job's feed as actor, and
\* no article is announced twice, by one job or by two.
C6_AnnouncedOnceByInserter ==
    /\ \A p \in Places :
         IsPlace(p) =>
            /\ ActivityAt(p).object[1] = p[1]
            /\ ActivityAt(p).object[2] \in Inserted(p[1])
            /\ ActivityAt(p).actor = jobData[p[1]]
            /\ Announcements(ActivityAt(p).object) = {p}
    /\ \A j \in Jobs :
         /\ Len(ogQueue[j]) <= Cardinality(Inserted(j))
         /\ \A n \in DOMAIN ogQueue[j] :
               \E k \in Inserted(j) : tasks[j][k].value.url = ogQueue[j][n].url

\* C6 witness: j1 has inserted and announced an article; j2 has then
\* overwritten it with other content and has ended announcing nothing.
C6_Witness ==
    /\ pc["j1"] = "done" /\ pc["j2"] = "done"
    /\ thrown["j1"] = NoError /\ thrown["j2"] = NoError
    /\ notified["j1"]
    /\ published["j2"] = << >> /\ ogQueue["j2"] = << >>
    /\ \E k1 \in Inserted("j1"), k2 \in DOMAIN tasks["j2"] :
          /\ tasks["j2"][k2].via = "update"
          /\ tasks["j2"][k2].post.url = tasks["j1"][k1].post.url
          /\ Cardinality(Announcements(<< "j1", k1 >>)) = 1

Failures(docs, f) == docs[f].consecutiveScrapeFailures

\* What a job leaves untouched when it never reached its upserts.
NoArticleWork(j) ==
    /\ tasks[j] = << >>
    /\ ogQueue[j] = << >>
    /\ published[j] = << >>
    /\ ~ notified[j]

\* C7: when ParseFeed rejects, the job's next step is the catch block, which
\* adds exactly 1 to the feed's consecutiveScrapeFailures and ends the job
\* with the fetch error; the job has started no upsert, and that step leaves
\* the articles, the postCount and the fan-out as they were.
C7_FetchFailureCountsOne ==
    /\ [](\A j \in Jobs : caught[j] = FetchError =>
            /\ pc[j] \in {"incr", "done"}
            /\ NoArticleWork(j)
            /\ pc[j] = "done" => thrown[j] \in {FetchError, StoreError})
    /\ [][\A j \in Jobs :
            (caught[j] = FetchError /\ pc[j] = "incr" /\ thrown'[j] = FetchError) =>
               /\ Failures(rssDocs', jobData[j]) = Failures(rssDocs, jobData[j]) + 1
               /\ pc'[j] = "done"
               /\ logged'[j]
               /\ articles' = articles
               /\ \A f \in ExistingFeeds : rssDocs'[f].postCount = rssDocs[f].postCount
               /\ tasks' = tasks /\ ogQueue' = ogQueue /\ published' = published
               /\ notified' = notified]_vars

\* C7 witness: both jobs of f1 failed to fetch; the count went from 0 to 2
\* and f1 holds no article.
C7_Witness ==
    /\ \A j \in Jobs : pc[j] = "done" /\ thrown[j] = FetchError /\ jobData[j] = "f1"
    /\ Failures(rssDocs, "f1") = 2
    /\ { d \in articles : d.rss = "f1" } = {}

\* The step of job j in which the parsing step of lines 67-76 returns.
ParsingReturns(j) == pc[j] = "reset" /\ pc'[j] \notin {"reset", "incr"}

\* C8: when ParseFeed resolves, the job's next step is the reset, and when
\* the parsing step returns the feed's consecutiveScrapeFailures is 0,
\* whatever it was and whatever ParseFeed resolved with.
C8_FetchSuccessResetsCount ==
    [][\A j \in Jobs :
         /\ (pc[j] = "parsing" /\ rssContent'[j] # rssContent[j]) => pc'[j] = "reset"
         /\ ParsingReturns(j) => Failures(rssDocs', jobData[j]) = 0]_vars

\* C8 witness: j1 failed to fetch, which made the count 1; j2 then fetched a
\* feed without articles and the count is 0.
C8_Witness ==
    /\ pc["j1"] = "done" /\ thrown["j1"] = FetchError
    /\ pc["j2"] = "done" /\ thrown["j2"] = NoError
    /\ jobData["j2"] = "f1"
    /\ rssContent["j2"] = [kind |-> "content", articles |-> << >>]
    /\ before["j2"].quiet
    /\ Failures(rssDocs, "f1") = 0

\* The job's acknowledgement has been applied: it is past its first await.
\* (A job that ended with a store error before ParseFeed was called is left
\* out: its acknowledgement may be the call that failed.)
Acked(j) ==
    \/ pc[j] \notin {"ack", "done"}
    \/ pc[j] = "done" /\ (caught[j] # NoError \/ rssContent[j].kind # "pending")

\* ParseFeed has been called.
FetchStarted(j) ==
    \/ pc[j] \notin {"ack", "get_rss", "done"}
    \/ pc[j] = "done" /\ (caught[j] # NoError \/ rssContent[j].kind # "pending")

\* C9: the step that applies the acknowledgement sets isParsing to false and
\* lastScraped to the clock; ParseFeed is called only after it; and from then
\* on isParsing stays false and lastScraped never goes back, however the job
\* ends.
C9_AckBeforeWork ==
    /\ [](\A j \in Jobs :
            /\ FetchStarted(j) => Acked(j)
            /\ (Acked(j) /\ jobData[j] \in ExistingFeeds) =>
                  /\ ~ rssDocs[jobData[j]].isParsing
                  /\ rssDocs[jobData[j]].lastScraped >= 1
                  /\ rssDocs[jobData[j]].lastScraped <= clock)
    /\ [][/\ \A j \in Jobs :
               (pc[j] = "ack" /\ pc'[j] = "get_rss" /\ jobData[j] \in ExistingFeeds) =>
                  /\ clock' > clock
                  /\ rssDocs'[jobData[j]].lastScraped = clock'
                  /\ ~ rssDocs'[jobData[j]].isParsing
          /\ \A f \in ExistingFeeds :
               /\ rssDocs'[f].lastScraped >= rssDocs[f].lastScraped
               /\ ~ rssDocs[f].isParsing => ~ rssDocs'[f].isParsing]_vars

\* C9 witness: j1 was acknowledged and its fetch failed; j2 was acknowledged
\* later and its publish failed; f1 is not parsing and lastScraped is the
\* clock of the later acknowledgement.
C9_Witness ==
    /\ pc["j1"] = "done" /\ thrown["j1"] = FetchError
    /\ pc["j2"] = "done" /\ thrown["j2"] = StreamError
    /\ jobData["j2"] = "f1"
    /\ ~ rssDocs["f1"].isParsing
    /\ rssDocs["f1"].lastScraped = 2
    /\ rssDocs["f2"].isParsing

\* What the other jobs hold is left as it was.
OthersUntouched(j) ==
    \A k \in Jobs \ {j} :
        /\ pc'[k] = pc[k] /\ thrown'[k] = thrown[k] /\ logged'[k] = logged[k]
        /\ tasks'[k] = tasks[k] /\ candidates'[k] = candidates[k]
        /\ ogQueue'[k] = ogQueue[k] /\ published'[k] = published[k]
        /\ notified'[k] = notified[k]

\* C10: no error leaves rssProcessor; the step in which handleRSS throws ends
\* the job as completed with the error logged, leaves the other jobs as they
\* were, and a completed job is never started again.
C10_NoErrorEscapes ==
    /\ [](\A j \in Jobs :
            /\ ~ escaped[j]
            /\ thrown[j] # NoError => (pc[j] = "done" /\ logged[j])
            /\ logged[j] => thrown[j] # NoError)
    /\ [][\A j \in Jobs :
            /\ thrown'[j] # thrown[j] => (pc'[j] = "done" /\ OthersUntouched(j))
            /\ pc[j] = "done" =>
                  (pc'[j] = "done" /\ thrown'[j] = thrown[j] /\ logged'[j] = logged[j])]_vars

\* C10 witness: j2's publish failed, the error was logged and j2 completed,
\* after which j1 went on to notify the collections.
C10_Witness ==
    /\ pc["j2"] = "done" /\ thrown["j2"] = StreamError /\ logged["j2"] /\ ~ escaped["j2"]
    /\ pc["j1"] = "done" /\ thrown["j1"] = NoError /\ ~ logged["j1"] /\ notified["j1"]
    /\ before["j1"].articles = {} /\ ~ before["j1"].quiet
    /\ ~ before["j2"].quiet

\* The job's feed has no document in the RSS collection.
FeedGone(j) == jobData[j] \notin ExistingFeeds

\* C11: a job whose feed does not exist never gets past RSS.findOne: it has
\* called no ParseFeed, started no upsert and produced no enrichment job,
\* activity or notification; none of its steps changes an RSS document or an
\* article; and when RSS.findOne resolves the job ends without error.
C11_MissingFeedIsNoOp ==
    /\ [](\A j \in Jobs : FeedGone(j) =>
            /\ pc[j] \in {"ack", "get_rss", "done"}
            /\ rssContent[j].kind = "pending"
            /\ caught[j] = NoError
            /\ candidates[j] = << >>
            /\ NoArticleWork(j)
            /\ thrown[j] \in {NoError, StoreError})
    /\ [][\A j \in Jobs : (FeedGone(j) /\ pc'[j] # pc[j]) =>
            /\ rssDocs' = rssDocs
            /\ articles' = articles
            /\ (pc[j] = "get_rss" /\ thrown'[j] # StoreError) =>
                  (pc'[j] = "done" /\ thrown'[j] = NoError /\ ~ logged'[j])]_vars

\* C11 witness: j2, whose feed is gone, has ended without error while j1 has
\* not begun: the RSS documents and the articles are those of the start.
C11_Witness ==
    /\ FeedGone("j2")
    /\ pc["j2"] = "done" /\ thrown["j2"] = NoError /\ ~ logged["j2"]
    /\ pc["j1"] = "ack"
    /\ clock = 1
    /\ rssDocs["f1"].isParsing /\ rssDocs["f1"].lastScraped = 0
    /\ articles = {OtherFeedArticle}

\* ParseFeed resolved for job j with no article: nothing, or an empty list.
FetchedNothing(j) ==
    \/ rssContent[j].kind = "undefined"
    \/ rssContent[j].kind = "content" /\ rssContent[j].articles = << >>

\* C12: a job whose ParseFeed resolved with no article never reaches
\* upsertManyArticles, Article.count or the fan-out; the step that follows
\* the fetch ends it without error and leaves the articles and every
\* postCount as they were.
C12_EmptyFeedEndsAfterFetch ==
    /\ [](\A j \in Jobs : FetchedNothing(j) =>
            /\ pc[j] \in {"reset", "incr", "done"}
            /\ candidates[j] = << >>
            /\ counted[j] = 0
            /\ updatedArticles[j] = << >>
            /\ NoArticleWork(j))
    /\ [][\A j \in Jobs : (FetchedNothing(j) /\ ParsingReturns(j)) =>
            /\ pc'[j] = "done"
            /\ thrown'[j] = NoError
            /\ articles' = articles
            /\ \A f \in ExistingFeeds : rssDocs'[f].postCount = rssDocs[f].postCount]_vars

\* C12 witness: j1 fetched an empty list and ended without error; f1 holds an
\* article that j2 stored before j1 was acknowledged, and f1's postCount is
\* still 0, j2 not having counted yet.
C12_Witness ==
    /\ rssContent["j1"] = [kind |-> "content", articles |-> << >>]
    /\ pc["j1"] = "done" /\ thrown["j1"] = NoError
    /\ pc["j2"] = "count"
    /\ \E d \in articles : d.rss = "f1"
    /\ rssDocs["f1"].postCount = 0
    /\ rssDocs["f1"].lastScraped = 2

\* An upsertArticle call of job j has thrown a store error again.
UpsertThrew(j) == \E k \in DOMAIN tasks[j] : tasks[j][k].via = "error"

\* C13: when an upsertArticle call of a job meets a store error that is not
\* E11000, the job ends with that error, logged by rssProcessor and not
\* escaping it; the job has read no count, written no postCount, queued no
\* enrichment job, published no activity and notified no collection.
C13_StoreErrorAbortsBatch ==
    /\ [](\A j \in Jobs : UpsertThrew(j) =>
            /\ pc[j] = "done"
            /\ thrown[j] = StoreError
            /\ logged[j] /\ ~ escaped[j]
            /\ counted[j] = 0
            /\ updatedArticles[j] = << >>
            /\ ogQueue[j] = << >>
            /\ published[j] = << >>
            /\ ~ notified[j])
    /\ [][\A j \in Jobs : (~ UpsertThrew(j) /\ UpsertThrew(j)') =>
            /\ rssDocs' = rssDocs
            /\ articles' = articles
            /\ OthersUntouched(j)]_vars

\* C13 witness: of the two upserts of j1 one inserted its article and the
\* other met a store error; j1 ended with the error and f1's postCount is 0.
C13_Witness ==
    /\ Len(tasks["j1"]) = 2
    /\ \E k \in DOMAIN tasks["j1"] : tasks["j1"][k].via = "error"
    /\ \E k \in Inserted("j1") : \E d \in articles : d._id = << "j1", k >>
    /\ pc["j1"] = "done" /\ thrown["j1"] = StoreError /\ logged["j1"]
    /\ pc["j2"] = "ack"
    /\ rssDocs["f1"].postCount = 0

\* The articles the upserts of job j have inserted, by _id.
InsertedIds(j) == { << j, k >> : k \in Inserted(j) }

\* The urls of the articles the upserts of job j have inserted.
InsertedUrls(j) == { tasks[j][k].value.url : k \in Inserted(j) }

\* C14: when the first chunk is sent, and from then on, the enrichment queue
\* holds one job per article the job inserted; a step publishes at most one
\* chunk, while the job waits in the chunk loop without error, after the
\* chunks before it, which stay as they were; the queue no longer changes.
C14_EnrichThenChunksInOrder ==
    /\ [](\A j \in Jobs : (pc[j] \in {"publish", "notify"} \/ published[j] # << >>) =>
            /\ Len(ogQueue[j]) = Cardinality(Inserted(j))
            /\ { ogQueue[j][n].url : n \in DOMAIN ogQueue[j] } = InsertedUrls(j)
            /\ \A n \in DOMAIN ogQueue[j] : ogQueue[j][n].type = "article"
            /\ i[j] = chunkSize * Len(published[j]))
    /\ [][\A j \in Jobs : published'[j] # published[j] =>
            /\ pc[j] = "publish" /\ thrown[j] = NoError
            /\ Len(published'[j]) = Len(published[j]) + 1
            /\ SubSeq(published'[j], 1, Len(published[j])) = published[j]
            /\ ogQueue'[j] = ogQueue[j]]_vars

\* C14 witness: j1 inserted 201 articles; 201 enrichment jobs are queued and
\* two chunks are published, the third being sent.
C14_Witness ==
    /\ Cardinality(Inserted("j1")) = 201
    /\ Len(ogQueue["j1"]) = 201
    /\ Len(published["j1"]) = 2
    /\ pc["j1"] = "publish"
    /\ i["j1"] = 200

RECURSIVE Flatten(_)
Flatten(chunks) ==
    IF chunks = << >> THEN << >> ELSE Head(chunks) \o Flatten(Tail(chunks))

\* The chunks the job's articles need.
ChunksOf(n) == (n + chunkSize - 1) \div chunkSize

\* C15: the collections are notified only when every chunk of the job is
\* published; when addActivities rejects, the step leaves what is published
\* and queued, the articles and the RSS documents as they were, the chunks
\* before the failed one are the published ones, and the ended job sends no
\* further chunk and notifies nobody.
C15_NotifyAfterAllChunks ==
    /\ [](\A j \in Jobs :
            /\ notified[j] =>
                  /\ Len(published[j]) = ChunksOf(Cardinality(Inserted(j)))
                  /\ Len(Flatten(published[j])) = Cardinality(Inserted(j))
                  /\ Len(published[j]) >= 1
            /\ thrown[j] = StreamError =>
                  /\ ~ notified[j]
                  /\ Len(published[j]) < ChunksOf(Cardinality(Inserted(j)))
                  /\ Len(Flatten(published[j])) = chunkSize * Len(published[j])
                  /\ Len(ogQueue[j]) = Cardinality(Inserted(j)))
    /\ [][\A j \in Jobs :
            /\ (thrown'[j] = StreamError /\ thrown[j] # StreamError) =>
                  /\ published' = published /\ ogQueue' = ogQueue
                  /\ notified' = notified
                  /\ articles' = articles /\ rssDocs' = rssDocs
            /\ pc[j] = "done" =>
                  /\ published'[j] = published[j] /\ ogQueue'[j] = ogQueue[j]
                  /\ notified'[j] = notified[j]]_vars

\* C15 witness: j1 inserted 201 articles, its third addActivities was
\* rejected: two chunks of 100 stay published, 201 enrichment jobs stay
\* queued, the postCount written before stays, and nobody is notified.
C15_Witness ==
    /\ Cardinality(Inserted("j1")) = 201
    /\ pc["j1"] = "done" /\ thrown["j1"] = StreamError /\ logged["j1"]
    /\ Len(published["j1"]) = 2
    /\ Len(ogQueue["j1"]) = 201
    /\ rssDocs["f1"].postCount = 202
    /\ ~ notified["j1"]

\* C17: every published chunk holds between 1 and chunkSize activities; when
\* a job has ended without error, its chunks taken in order hold one activity
\* per article it inserted and no other, with the job's feed as actor; and a
\* job that inserted nothing has published no chunk and notified nobody.
C17_ChunksCoverInsertedOnce ==
    \A j \in Jobs :
        /\ \A c \in DOMAIN published[j] :
              Len(published[j][c]) >= 1 /\ Len(published[j][c]) <= chunkSize
        /\ (pc[j] = "done" /\ thrown[j] = NoError) =>
              LET all == Flatten(published[j])
              IN  /\ Len(all) = Cardinality(Inserted(j))
                  /\ { all[n].object : n \in DOMAIN all } = InsertedIds(j)
                  /\ \A n \in DOMAIN all :
                        all[n].actor = jobData[j] /\ all[n].verb = "rss_article"
                  /\ notified[j] = (Inserted(j) # {})
        /\ Inserted(j) = {} => (published[j] = << >> /\ ~ notified[j])

\* C17 witness: j1 inserted 201 articles and overwrote one, and has ended
\* without error: chunks of 100, 100 and 1 activities are published.
C17_Witness ==
    /\ Cardinality(Inserted("j1")) = 201
    /\ Len(tasks["j1"]) = 202
    /\ pc["j1"] = "done" /\ thrown["j1"] = NoError /\ notified["j1"]
    /\ Len(published["j1"]) = 3
    /\ Len(published["j1"][1]) = 100
    /\ Len(published["j1"][2]) = 100
    /\ Len(published["j1"][3]) = 1

\* The stored articles of feed f, as view holds them, that are some
\* candidate's exact (url, contentHash) pair.
Seen(view, f, cands) ==
    { d \in view : /\ d.rss = f
                   /\ \E k \in DOMAIN cands :
                        << d.url, d.contentHash >> = << cands[k].url, cands[k].contentHash >> }

\* The places of the candidates whose url is no seen url and whose
\* contentHash is no seen contentHash.
Survivors(view, f, cands) ==
    { k \in DOMAIN cands :
        /\ \A d \in Seen(view, f, cands) : d.url # cands[k].url
        /\ \A d \in Seen(view, f, cands) : d.contentHash # cands[k].contentHash }

\* The sequence ts is the candidates at the places K, in the candidates' order.
IsSelection(ts, cands, K) ==
    /\ Len(ts) = Cardinality(K)
    /\ \A k \in K : ts[Cardinality({ m \in K : m <= k })] = cands[k]

\* C16: the step in which upsertManyArticles has its answer from the store
\* starts one upsertArticle call for each candidate whose url is not among
\* the seen urls and whose contentHash is not among the seen hashes, in the
\* candidates' order, and for no other; the seen being the feed's articles,
\* as the primary or the secondary holds them, that match a candidate's
\* exact pair.
C16_PrefilterKeepsUnseenUrlAndHash ==
    [][\A j \in Jobs : (pc[j] = "find" /\ pc'[j] \in {"count", "upserting"}) =>
          /\ \E view \in {articles, secondary} :
                IsSelection([k \in DOMAIN tasks'[j] |-> tasks'[j][k].post],
                            candidates[j], Survivors(view, jobData[j], candidates[j]))
          /\ \A k \in DOMAIN tasks'[j] : tasks'[j][k].st = "call"
          /\ articles' = articles]_vars

\* C16 witness: f1 holds url "b" only; j2's candidates are that article and
\* one of url "a" with the same contentHash; the prefilter left neither, the
\* second for its contentHash alone, and j2 went on to count.
C16_Witness ==
    /\ Len(candidates["j2"]) = 2
    /\ candidates["j2"][1].url = "b" /\ candidates["j2"][2].url = "a"
    /\ candidates["j2"][1].contentHash = candidates["j2"][2].contentHash
    /\ tasks["j2"] = << >>
    /\ pc["j2"] = "count"
    /\ Stored("f1", "a") = {}
    /\ \E d \in Stored("f1", "b") : d.contentHash = candidates["j2"][1].contentHash

Keys(coll) == { << d.rss, d.url >> : d \in coll }

\* C18: no step removes an article: every stored article is still stored
\* after the step, under the same _id, with the same rss and the same url,
\* so the stored (rss, url) keys only grow.
C18_ArticlesAreNeverDeleted ==
    [][/\ \A d \in articles :
             \E e \in articles' : e._id = d._id /\ e.rss = d.rss /\ e.url = d.url
       /\ Keys(articles) \subseteq Keys(articles')
       /\ Cardinality(articles') >= Cardinality(articles)]_vars

\* C18 witness: j1 inserted an article and j2 overwrote its content: it is
\* stored under j1's _id and url with j2's content, beside the other article
\* of f1 and that of f2.
C18_Witness ==
    /\ Cardinality(articles) = 3
    /\ \E k1 \in Inserted("j1"), k2 \in DOMAIN tasks["j2"] :
          /\ tasks["j2"][k2].st = "done" /\ tasks["j2"][k2].via = "update"
          /\ \E d \in articles :
                /\ d._id = << "j1", k1 >>
                /\ d.url = tasks["j1"][k1].post.url
                /\ d.contentHash = tasks["j2"][k2].post.contentHash
                /\ d.contentHash # tasks["j1"][k1].post.contentHash

\* The jobs that ran for feed f.
JobsOf(f) == { j \in Jobs : jobData[j] = f }

\* Job j fetched at least one article and ended without any error.
RanWithArticlesOK(j) ==
    /\ pc[j] = "done"
    /\ thrown[j] = NoError
    /\ rssContent[j].kind = "content"
    /\ Len(rssContent[j].articles) >= 1
    /\ AllSettled(tasks[j])

\* C19: when every job of a feed has ended without error, each having
\* fetched at least one article, the feed's postCount is the number of
\* articles stored for the feed.
C19_PostCountIsArticleCount ==
    \A f \in ExistingFeeds :
        (JobsOf(f) # {} /\ \A j \in JobsOf(f) : RanWithArticlesOK(j)) =>
            rssDocs[f].postCount = Cardinality({ d \in articles : d.rss = f })

\* A stored article of the job's feed has the url of upsertArticle call k of
\* job j and its title, description, content and commentUrl.
StoredIdentical(j, k) ==
    \E d \in Stored(jobData[j], tasks[j][k].post.url) : SameContent(d, tasks[j][k].post)

\* C20: an upsertArticle call made while an article of the same feed and url
\* is stored with identical title, description, content and commentUrl does
\* not update: unless the store fails, its query matches nothing and leaves
\* the articles alone; the insert that follows, the url being stored, leaves
\* the articles alone, counts one ignored duplicate, returns no article and
\* throws nothing; and no activity is ever published for such a call.
C20_IdenticalUpsertIsAbsorbed ==
    /\ [][\A j \in Jobs : \A k \in DOMAIN tasks[j] :
            LET t == tasks[j][k]
                u == tasks'[j][k]
            IN  /\ (t.st = "call" /\ StoredIdentical(j, k) /\ u # t /\ u.via # "error") =>
                      /\ u.st = "insert"
                      /\ articles' = articles
                      /\ thrown' = thrown /\ ignored' = ignored
                /\ (t.st = "insert" /\ Stored(jobData[j], t.post.url) # {} /\ u # t) =>
                      /\ u.st = "done" /\ u.via = "insert" /\ u.value = Null
                      /\ articles' = articles
                      /\ ignored' = ignored + 1
                      /\ thrown' = thrown /\ logged' = logged]_vars
    /\ [](\A t \in AllTasks :
            (IsTask(t) /\ TaskOf(t).st = "done" /\ TaskOf(t).value = Null) =>
                Announcements(t) = {})

\* C20 witness: j2 began when j1 had ended and its article was stored; j2's
\* prefilter, reading a stale secondary, let the identical article through;
\* the upsert was ignored as a duplicate, the store is as it was when j2
\* began, and j2 ended without error having published nothing.
C20_Witness ==
    /\ before["j2"].quiet
    /\ articles = before["j2"].articles
    /\ \E k \in DOMAIN tasks["j2"] :
          /\ tasks["j2"][k].st = "done" /\ tasks["j2"][k].via = "insert"
          /\ tasks["j2"][k].value = Null
          /\ \E d \in before["j2"].articles :
                /\ d.rss = "f1" /\ d.url = tasks["j2"][k].post.url
                /\ SameContent(d, tasks["j2"][k].post)
    /\ ignored = 1
    /\ pc["j2"] = "done" /\ thrown["j2"] = NoError
    /\ published["j2"] = << >> /\ ogQueue["j2"] = << >>

====
